---- MODULE Spec2Model ----
(***************************************************************************)
(* A model of the alex-articles blog demo.                                 *)
(*                                                                         *)
(*   - the DOM enhancer (components/CopyButton.tsx): the scan              *)
(*     injectCopyButtonsIntoCodeBlocks and the effect of                   *)
(*     CopyButtonsInjector with its MutationObserver;                      *)
(*   - the content endpoint (plugins/api-plugin.ts): the middleware that   *)
(*     answers GET /api/article/<slug>.                                    *)
(*                                                                         *)
(* The two pieces share no state; SpecDOM and SpecAPI exercise one each.   *)
(***************************************************************************)
EXTENDS Integers, Sequences, FiniteSets, TLC

VARIABLES
    \* ---- document and enhancer
    container,   \* TRUE iff an element with id 'post-content' is in the document
    loc,         \* per pre: "none" (not created), "in" (inside the container),
                 \*          "out" (in the document, outside the container),
                 \*          "detached" (removed from the document)
    text,        \* per pre: its own text, without what a control renders:
                 \*          "empty", "ws" (only whitespace) or "text"
    wrappers,    \* per pre: number of descendants carrying data-copy-btn
    relative,    \* per pre: TRUE iff style.position = 'relative'
    roots,       \* per pre: number of React roots created for its wrappers and
                 \*          not unmounted
    rendered,    \* per pre: number of those roots whose render has committed
    effect,      \* the effect of CopyButtonsInjector: "idle" (not run, or
                 \*   cleaned up), "noop" (ran and returned early),
                 \*   "observing" (ran, observer connected)
    pending,     \* TRUE iff the observer's record queue is not empty
    lastOp,      \* the operation that led to this state
    mountedNow,  \* the pres the scan of the last operation mounted a control into
    \* ---- content endpoint
    files,       \* slug -> text of <ARTICLE_PATH>/<slug>/article.md, or NoFile
    now,         \* the server's clock
    req,         \* the request being answered, or NoReq
    resp,        \* its response, or NoResp
    delivered,   \* the last exchange a client has received: [req, resp]
    \* ---- client: hooks/useGetArticle.ts, hooks/useProcessContentToHTML.ts
    qStatus,     \* the article query: "idle", "fetching", "waiting" (a retry
                 \*   is scheduled), "success" or "error"
    failureCount,  \* failed requests of the current fetch that were retried
    requests,    \* requests sent by the current fetch
    article,     \* article.content of the last successful response, or NoData
    inflight,    \* the contents whose parse() has not completed
    parsedContent,  \* the state of useProcessContentToHTML
    \* ---- the page's surroundings
    extDone      \* TRUE once nothing outside the enhancer touches the page

domVars == <<container, loc, text, wrappers, relative, roots, rendered,
             effect, pending, lastOp, mountedNow>>
apiVars == <<files, now, req, resp>>
clientVars == <<qStatus, failureCount, requests, article, inflight,
                parsedContent>>
otherVars == <<clientVars, delivered, extDone>>
vars == <<domVars, apiVars, otherVars>>

(***************************************************************************)
(* Bounds                                                                  *)
(***************************************************************************)
NumPres == 2
MaxClock == 2

Pres == 1..NumPres

(***************************************************************************)
(* DOM enhancer: components/CopyButton.tsx                                 *)
(*                                                                         *)
(* The pre elements are siblings of each other (Markdown code fences never *)
(* nest a pre inside a pre), so the work the scan does on one pre does not *)
(* change what it finds in another.                                        *)
(***************************************************************************)
Locs == {"none", "in", "out", "detached"}
Texts == {"empty", "ws", "text"}
Effects == {"idle", "noop", "observing"}

\* document.querySelectorAll('pre') enumerates the pres of the whole document.
InDocument(p) == loc[p] \in {"in", "out"}

\* pre.querySelector('[data-copy-btn]') is not null.
HasMarker(p) == wrappers[p] > 0

\* pre.textContent: the pre's own text followed by what its controls have
\* rendered (the button of CopyButtonToClipboard carries a label).
TextContent(p) == IF rendered[p] > 0 THEN "text" ELSE text[p]

\* !pre.textContent?.trim()
BlankText(p) == TextContent(p) \in {"empty", "ws"}

\* ShouldEnhance with a fault: the marker check left out; trim() left out.
ShouldEnhance_NoMarkerCheck(p) == InDocument(p) /\ ~BlankText(p)
ShouldEnhance_NoTrim(p) ==
    InDocument(p) /\ ~HasMarker(p) /\ TextContent(p) # "empty"

\* ShouldEnhance with a fault: targetNode.querySelectorAll('pre').
ShouldEnhance_ContainerOnly(p) ==
    loc[p] = "in" /\ ~HasMarker(p) /\ ~BlankText(p)

\* The two early returns of the forEach callback: a pre is enhanced iff it has
\* no marker and its text is not blank.
ShouldEnhance(p) == InDocument(p) /\ ~HasMarker(p) /\ ~BlankText(p)

\* ScanTargets with a fault: document.querySelector('pre'), the first match only.
ScanTargets_FirstOnly ==
    {p \in Pres : ShouldEnhance(p) /\ \A q \in Pres : ShouldEnhance(q) => p <= q}

\* The pres one run of the scan enhances: pres.forEach over querySelectorAll.
ScanTargets == {p \in Pres : ShouldEnhance(p)}

\* The DOM after one run of injectCopyButtonsIntoCodeBlocks: a wrapper appended
\* to each target, the target made a positioning context, a root created on
\* the wrapper and its render scheduled.
Scan ==
    /\ wrappers' = [p \in Pres |-> IF p \in ScanTargets THEN wrappers[p] + 1
                                   ELSE wrappers[p]]
    /\ relative' = [p \in Pres |-> relative[p] \/ p \in ScanTargets]
    /\ roots' = [p \in Pres |-> IF p \in ScanTargets THEN roots[p] + 1
                                ELSE roots[p]]
    /\ mountedNow' = ScanTargets

\* A childList mutation under the pre p is queued for the observer iff the
\* observer is connected and p is inside the observed container (subtree: true).
Observed(p) == effect = "observing" /\ loc[p] = "in"

NoScan == /\ mountedNow' = {}
          /\ UNCHANGED <<wrappers, relative, roots>>

\* ---- the effect of CopyButtonsInjector

\* ActivateGuard with a fault: the early return on a missing container dropped.
ActivateGuard_NoContainerCheck == TRUE

\* const targetNode = document.getElementById('post-content'); if (!targetNode) return;
ActivateGuard == container

\* Activate with a fault: the initial pass is left to the observer.
Activate_ObserverOnly ==
    /\ effect = "idle"
    /\ NoScan
    /\ effect' = IF ActivateGuard THEN "observing" ELSE "noop"
    /\ pending' = IF ActivateGuard THEN FALSE ELSE pending
    /\ lastOp' = IF ActivateGuard THEN "Activate" ELSE "ActivateNoop"
    /\ UNCHANGED <<loc, text, rendered, container>>
    /\ UNCHANGED <<apiVars, otherVars>>

\* The effect runs (the component mounts): without the container it returns;
\* with it, one scan runs, then a new observer is created and connected. The
\* scan's own DOM writes precede observe() and are not queued.
Activate ==
    /\ effect = "idle"
    /\ IF ActivateGuard
       THEN /\ Scan
            /\ effect' = "observing"
            /\ pending' = FALSE
            /\ lastOp' = "Activate"
       ELSE /\ NoScan
            /\ effect' = "noop"
            /\ lastOp' = "ActivateNoop"
            /\ UNCHANGED pending
    /\ UNCHANGED <<loc, text, rendered, container>>
    /\ UNCHANGED <<apiVars, otherVars>>

\* Deactivate with a fault: the records queued before the cleanup stay queued.
Deactivate_KeepsQueue ==
    /\ effect \in {"noop", "observing"}
    /\ effect' = "idle"
    /\ lastOp' = "Deactivate"
    /\ NoScan
    /\ UNCHANGED <<loc, text, rendered, container, pending>>
    /\ UNCHANGED <<apiVars, otherVars>>

\* The effect's cleanup (the component unmounts): () => observer.disconnect(),
\* which stops the observation and empties the observer's record queue. After
\* an early return there is no cleanup function. No root is unmounted.
Deactivate ==
    /\ effect \in {"noop", "observing"}
    /\ effect' = "idle"
    /\ pending' = FALSE
    /\ lastOp' = "Deactivate"
    /\ NoScan
    /\ UNCHANGED <<loc, text, rendered, container>>
    /\ UNCHANGED <<apiVars, otherVars>>

\* The observer's callback is invoked iff its record queue is not empty.
CallbackGuard == pending

\* Notify with a fault: the scan appends the wrapper of an enhanced pre again,
\* a mutation inside the container at every run.
Notify_Reappends ==
    /\ CallbackGuard
    /\ Scan
    /\ pending' = (\E p \in Pres :
                      Observed(p) /\ (p \in ScanTargets \/ HasMarker(p)))
    /\ lastOp' = "Notify"
    /\ UNCHANGED <<loc, text, rendered, container, effect>>
    /\ UNCHANGED <<apiVars, otherVars>>

\* The mutation-notification microtask: the queue is taken, then the callback
\* injectCopyButtonsIntoCodeBlocks runs; the wrappers it appends inside the
\* container are queued for the next notification.
Notify ==
    /\ CallbackGuard
    /\ Scan
    /\ pending' = (\E p \in ScanTargets : Observed(p))
    /\ lastOp' = "Notify"
    /\ UNCHANGED <<loc, text, rendered, container, effect>>
    /\ UNCHANGED <<apiVars, otherVars>>

\* A scheduled root.render commits: the control's DOM is inserted into the
\* wrapper, a mutation in the subtree of the pre.
RenderCommit(p) ==
    /\ rendered[p] < roots[p]
    /\ rendered' = [rendered EXCEPT ![p] = @ + 1]
    /\ pending' = (pending \/ Observed(p))
    /\ lastOp' = "Env"
    /\ NoScan
    /\ UNCHANGED <<loc, text, container, effect>>
    /\ UNCHANGED <<apiVars, otherVars>>

\* ---- the page around the enhancer

\* Article.Body renders <Box id='post-content'>.
ContainerAppear ==
    /\ ~container
    /\ container' = TRUE
    /\ lastOp' = "Env"
    /\ NoScan
    /\ UNCHANGED <<loc, text, rendered, effect, pending>>
    /\ UNCHANGED <<apiVars, otherVars>>

\* Article.Body unmounts: it owns the injector and the container, so the
\* container leaves the document only with the effect cleaned up.
ContainerRemove ==
    /\ container
    /\ effect # "observing"
    /\ container' = FALSE
    /\ loc' = [p \in Pres |-> IF loc[p] = "in" THEN "detached" ELSE loc[p]]
    /\ lastOp' = "Env"
    /\ NoScan
    /\ UNCHANGED <<text, rendered, effect, pending>>
    /\ UNCHANGED <<apiVars, otherVars>>

\* A pre enters the document: a new one with text t, or a detached one put back
\* with what it holds. dangerouslySetInnerHTML does this inside the container.
InsertPre(p, where, t) ==
    /\ loc[p] \in {"none", "detached"}
    /\ where = "in" => container
    /\ loc' = [loc EXCEPT ![p] = where]
    /\ text' = [text EXCEPT ![p] = IF loc[p] = "none" THEN t ELSE @]
    /\ pending' = (pending \/ (effect = "observing" /\ where = "in"))
    /\ lastOp' = "Env"
    /\ NoScan
    /\ UNCHANGED <<rendered, container, effect>>
    /\ UNCHANGED <<apiVars, otherVars>>

\* A pre leaves the document, keeping its children.
RemovePre(p) ==
    /\ InDocument(p)
    /\ loc' = [loc EXCEPT ![p] = "detached"]
    /\ pending' = (pending \/ Observed(p))
    /\ lastOp' = "Env"
    /\ NoScan
    /\ UNCHANGED <<text, rendered, container, effect>>
    /\ UNCHANGED <<apiVars, otherVars>>

\* The children of the pre's code element are replaced (Prism.highlightAll
\* rewrites them): the pre's own text changes, its wrapper is untouched.
SetText(p, t) ==
    /\ InDocument(p)
    /\ text[p] # t
    /\ text' = [text EXCEPT ![p] = t]
    /\ pending' = (pending \/ Observed(p))
    /\ lastOp' = "Env"
    /\ NoScan
    /\ UNCHANGED <<loc, rendered, container, effect>>
    /\ UNCHANGED <<apiVars, otherVars>>

(***************************************************************************)
(* Content endpoint: plugins/api-plugin.ts                                 *)
(*                                                                         *)
(* A string that the code takes apart is a sequence of tokens: a URL and a *)
(* slug are sequences of "/" and segment names, a file is a sequence of    *)
(* lines. The segment names are URL-safe, so new URL() leaves them as they *)
(* are. The files have no front-matter or a closed front-matter block of   *)
(* distinct keys, which is what gray-matter and its YAML parser accept     *)
(* without raising.                                                        *)
(***************************************************************************)
SlugNested == <<"react", "/", "mutation-observer">>
SlugFlat == <<"intro">>
SlugAbsent == <<"missing">>

\* The slugs <ARTICLE_PATH> may hold an article.md for, and the slugs requested.
DiskSlugs == {SlugNested, SlugFlat}
ReqSlugs == DiskSlugs \cup {SlugAbsent}

NoFile == <<[t |-> "nofile"]>>
NoReq == [slug |-> <<>>, url |-> <<>>, at |-> 0 - 1]
NoResp == [kind |-> "none"]

\* ---- article files, as written by their author

Delim == [t |-> "delim"]
KV(k, q, s) == [t |-> "kv", k |-> k, q |-> q, s |-> s]
Txt(s) == [t |-> "txt", s |-> s]

\* The scalars an author writes after "title:" or "date:": quoted or plain.
\* <<quoted, text>>: title: 'Hello', title: Hello, title: '', and the like.
TitleScalars == {<<TRUE, "Hello">>, <<FALSE, "Hello">>, <<TRUE, "">>}
DateScalars == {<<TRUE, "2025-06-26">>, <<FALSE, "2025-06-26">>, <<TRUE, "">>}
Absent == <<FALSE, "absent">>

Bodies == { <<Txt("# Heading")>>,
            <<Txt("para"), Delim, Txt("more")>> }

KeyLine(k, sc) == IF sc = Absent THEN <<>> ELSE <<KV(k, sc[1], sc[2])>>

\* A file with a front-matter block: title, date and a key the endpoint ignores.
WithFrontMatter(ti, da, body) ==
    <<Delim>> \o KeyLine("title", ti) \o KeyLine("date", da)
              \o <<KV("topic", TRUE, "React"), Delim>> \o body

FileTexts ==
    Bodies \cup
    { WithFrontMatter(ti, da, b) : ti \in TitleScalars \cup {Absent},
                                   da \in DateScalars \cup {Absent},
                                   b \in Bodies }

\* ---- gray-matter

\* The YAML timestamps among the plain scalars.
IsTimestamp(s) == s \in {"2025-06-26"}

\* The value the YAML parser gives a scalar: a quoted scalar is a string, a
\* plain empty one is null, a plain timestamp is a Date, another plain one is
\* a string.
YamlResolve(q, s) ==
    IF q THEN [t |-> "str", v |-> s]
    ELSE IF s = "" THEN [t |-> "null", v |-> ""]
    ELSE IF IsTimestamp(s) THEN [t |-> "date", v |-> s]
    ELSE [t |-> "str", v |-> s]

\* The index of the line closing the front-matter block opened by line 1, or
\* Len + 1 when no line closes it.
CloseIndex(content) ==
    LET closers == {j \in 2..Len(content) : content[j].t = "delim"}
    IN  IF closers = {} THEN Len(content) + 1
        ELSE CHOOSE j \in closers : \A i \in closers : j <= i

\* matter(content): {data, content}.
Matter(content) ==
    IF Len(content) = 0 \/ content[1].t # "delim"
    THEN [data |-> <<>>, content |-> content]
    ELSE LET c == CloseIndex(content)
             kvs == {i \in 2..(c - 1) : content[i].t = "kv"}
             keys == {content[i].k : i \in kvs}
         IN  [data |-> [k \in keys |->
                          LET i == CHOOSE i \in kvs : content[i].k = k
                          IN  YamlResolve(content[i].q, content[i].s)],
              content |-> SubSeq(content, c + 1, Len(content))]

\* ---- JavaScript values

Undefined == [t |-> "undefined", v |-> ""]
Str(s) == [t |-> "str", v |-> s]

\* parsed.data.<key>
Get(data, k) == IF k \in DOMAIN data THEN data[k] ELSE Undefined

\* A value that is not falsy: not undefined, null or the empty string.
Truthy(x) == /\ x.t \notin {"undefined", "null"}
             /\ ~(x.t = "str" /\ x.v = "")

\* new Date().toISOString() at clock value c.
ToISOString(c) == "1970-01-01T00:00:0" \o ToString(c) \o ".000Z"

\* What JSON.stringify writes for a value and response.json() reads back: a
\* string as it is, a Date as its toISOString().
JsonOf(x) == IF x.t = "date" THEN x.v \o "T00:00:00.000Z" ELSE x.v

\* ---- the middleware

\* new URL(req.url || '', 'http://localhost').pathname: the URL up to its query.
Pathname(url) ==
    LET qs == {i \in 1..Len(url) : url[i] = "?"}
    IN  IF qs = {} THEN url
        ELSE SubSeq(url, 1, (CHOOSE i \in qs : \A j \in qs : i <= j) - 1)

\* StripFirstSlash with a fault: replace(/\//g, '').
StripFirstSlash_Global(path) == SelectSeq(path, LAMBDA x : x # "/")

\* pathname.replace(/\//, ''): the first "/" removed.
StripFirstSlash(path) ==
    LET ss == {i \in 1..Len(path) : path[i] = "/"}
    IN  IF ss = {} THEN path
        ELSE LET i == CHOOSE i \in ss : \A j \in ss : i <= j
             IN  SubSeq(path, 1, i - 1) \o SubSeq(path, i + 1, Len(path))

SlugOf(url) == StripFirstSlash(Pathname(url))

\* fs.existsSync(filePath) and fs.readFileSync(filePath, 'utf-8').
ReadFile(slug) == IF slug \in DOMAIN files THEN files[slug] ELSE NoFile
ExistsSync(slug) == ReadFile(slug) # NoFile

\* DateOf with a fault: the Date taken once, when the server starts.
DateOf_Startup(data, clock) ==
    IF Truthy(Get(data, "date")) THEN Get(data, "date") ELSE Str(ToISOString(0))

\* parsed.data.title || 'Untitled'
TitleOf(data) ==
    IF Truthy(Get(data, "title")) THEN Get(data, "title") ELSE Str("Untitled")

\* parsed.data.date || new Date().toISOString()
DateOf(data, clock) ==
    IF Truthy(Get(data, "date")) THEN Get(data, "date")
    ELSE Str(ToISOString(clock))

\* Respond with a fault: res.statusCode = 404 left out.
Respond_NoStatus(url, clock) ==
    LET slug == SlugOf(url)
    IN  IF ExistsSync(slug)
        THEN LET parsed == Matter(ReadFile(slug))
             IN  [kind |-> "json", status |-> 200,
                  contentType |-> "application/json",
                  content |-> parsed.content,
                  title |-> JsonOf(TitleOf(parsed.data)),
                  date |-> JsonOf(DateOf(parsed.data, clock)),
                  slug |-> slug]
        ELSE [kind |-> "text", status |-> 200, contentType |-> "",
              body |-> "Article not found"]

\* The response of the middleware to req.url at clock value clock.
Respond(url, clock) ==
    LET slug == SlugOf(url)
    IN  IF ExistsSync(slug)
        THEN LET parsed == Matter(ReadFile(slug))
             IN  [kind |-> "json", status |-> 200,
                  contentType |-> "application/json",
                  content |-> parsed.content,
                  title |-> JsonOf(TitleOf(parsed.data)),
                  date |-> JsonOf(DateOf(parsed.data, clock)),
                  slug |-> slug]
        ELSE [kind |-> "text", status |-> 404, contentType |-> "",
              body |-> "Article not found"]

\* Request with a fault: the answer to a URL answered before is served again.
Request_Cached(s, withQuery) ==
    LET url == <<"/">> \o s \o (IF withQuery THEN <<"?", "v=1">> ELSE <<>>)
    IN  /\ req' = [slug |-> s, url |-> url, at |-> now]
        /\ resp' = IF delivered.req.url = url THEN delivered.resp
                   ELSE Respond(url, now)
        /\ UNCHANGED <<files, now>>
        /\ UNCHANGED <<domVars, otherVars>>

\* GET <API_ENDPOINT>/<slug>, with or without a query: the middleware sees the
\* URL after the mount point and answers in one synchronous step.
Request(s, withQuery) ==
    LET url == <<"/">> \o s \o (IF withQuery THEN <<"?", "v=1">> ELSE <<>>)
    IN  /\ req' = [slug |-> s, url |-> url, at |-> now]
        /\ resp' = Respond(url, now)
        /\ UNCHANGED <<files, now>>
        /\ UNCHANGED <<domVars, otherVars>>

\* The author writes or replaces an article file; the response has been sent.
WriteFile(s, f) ==
    /\ files[s] # f
    /\ files' = [files EXCEPT ![s] = f]
    /\ req' = NoReq
    /\ resp' = NoResp
    /\ UNCHANGED now
    /\ UNCHANGED <<domVars, otherVars>>

\* The author deletes an article file.
DeleteFile(s) ==
    /\ files[s] # NoFile
    /\ files' = [files EXCEPT ![s] = NoFile]
    /\ req' = NoReq
    /\ resp' = NoResp
    /\ UNCHANGED now
    /\ UNCHANGED <<domVars, otherVars>>

\* Time passes on the server.
Tick ==
    /\ now < MaxClock
    /\ now' = now + 1
    /\ req' = NoReq
    /\ resp' = NoResp
    /\ UNCHANGED files
    /\ UNCHANGED <<domVars, otherVars>>

\* res.end(...): the response reaches the client that asked.
Deliver ==
    /\ resp.kind # "none"
    /\ delivered # [req |-> req, resp |-> resp]
    /\ delivered' = [req |-> req, resp |-> resp]
    /\ UNCHANGED <<domVars, apiVars, clientVars, extDone>>

(***************************************************************************)
(* Client: hooks/useGetArticle.ts and hooks/useProcessContentToHTML.ts     *)
(***************************************************************************)
NoData == <<[t |-> "nodata"]>>

\* remark().use(html).process(content), as a string of elements: a "---" line
\* becomes a rule, a text line a paragraph.
Html(content) ==
    [i \in 1..Len(content) |->
        IF content[i].t = "delim" THEN [tag |-> "hr", s |-> ""]
        ELSE [tag |-> "p", s |-> content[i].s]]

\* useGetArticle('react/mutation-observer') in Article.
QuerySlug == SlugNested

\* new QueryClient() sets no defaultOptions and useQuery no retry: a failed
\* query function is retried three times, after a delay each time.
DefaultRetry == 3

\* RetryAllowed with a fault: retry: true.
RetryAllowed_Always(fc) == TRUE

\* The query retries a failure iff fewer than DefaultRetry failures came before.
RetryAllowed(fc) == fc < DefaultRetry

\* The query starts fetching: Article mounts, or a settled query is fetched
\* again (a new mount, the network coming back). The data it has stays.
QueryFetch ==
    /\ qStatus \in {"idle", "success", "error"}
    /\ qStatus' = "fetching"
    /\ failureCount' = 0
    /\ requests' = 1
    /\ UNCHANGED <<article, inflight, parsedContent>>
    /\ UNCHANGED <<domVars, apiVars, delivered, extDone>>

\* fetchArticle settles: the endpoint answers the request. A response that is
\* not ok makes it throw, and the query retries or ends in error; an ok one
\* gives the article, and a content that differs from the one Body had runs
\* the effect of useProcessContentToHTML, which calls parse.
FetchSettle ==
    LET url == <<"/">> \o QuerySlug
        r == Respond(url, now)
    IN  /\ qStatus = "fetching"
        /\ req' = [slug |-> QuerySlug, url |-> url, at |-> now]
        /\ resp' = r
        /\ IF r.status = 200
           THEN /\ qStatus' = "success"
                /\ article' = r.content
                /\ inflight' = IF article # r.content
                               THEN inflight \cup {r.content} ELSE inflight
                /\ UNCHANGED failureCount
           ELSE /\ qStatus' = IF RetryAllowed(failureCount) THEN "waiting"
                              ELSE "error"
                /\ failureCount' = IF RetryAllowed(failureCount)
                                   THEN failureCount + 1 ELSE failureCount
                /\ UNCHANGED <<article, inflight>>
        /\ UNCHANGED <<requests, parsedContent, files, now>>
        /\ UNCHANGED <<domVars, delivered, extDone>>

\* The retry delay has passed: the query function runs again.
RetryFire ==
    /\ qStatus = "waiting"
    /\ qStatus' = "fetching"
    /\ requests' = requests + 1
    /\ UNCHANGED <<failureCount, article, inflight, parsedContent>>
    /\ UNCHANGED <<domVars, apiVars, delivered, extDone>>

\* A parse call completes, in whatever order the promises settle, and calls
\* onParse = setParsedContent with its HTML.
ParseDone(c) ==
    /\ c \in inflight
    /\ parsedContent' = Html(c)
    /\ inflight' = inflight \ {c}
    /\ UNCHANGED <<qStatus, failureCount, requests, article>>
    /\ UNCHANGED <<domVars, apiVars, delivered, extDone>>

(***************************************************************************)
(* Specifications                                                          *)
(***************************************************************************)
InitDOM ==
    /\ container \in BOOLEAN
    /\ loc = [p \in Pres |-> "none"]
    /\ text = [p \in Pres |-> "empty"]
    /\ wrappers = [p \in Pres |-> 0]
    /\ relative = [p \in Pres |-> FALSE]
    /\ roots = [p \in Pres |-> 0]
    /\ rendered = [p \in Pres |-> 0]
    /\ effect = "idle"
    /\ pending = FALSE
    /\ lastOp = "Init"
    /\ mountedNow = {}

InitAPI ==
    /\ files \in [DiskSlugs -> FileTexts \cup {NoFile}]
    /\ now = 0
    /\ req = NoReq
    /\ resp = NoResp

\* No exchange has been delivered, the query has not started, Body is not
\* mounted.
InitOther ==
    /\ delivered = [req |-> NoReq, resp |-> NoResp]
    /\ qStatus = "idle"
    /\ failureCount = 0
    /\ requests = 0
    /\ article = NoData
    /\ inflight = {}
    /\ parsedContent = Html(<<>>)
    /\ extDone = FALSE

\* The enhancer alone: no article is on disk and no request is made.
InitEnhancer ==
    /\ InitDOM
    /\ InitOther
    /\ files = [s \in DiskSlugs |-> NoFile]
    /\ now = 0
    /\ req = NoReq
    /\ resp = NoResp

\* The endpoint alone: the page is never rendered.
InitEndpoint ==
    /\ InitAPI
    /\ InitOther
    /\ container = FALSE
    /\ loc = [p \in Pres |-> "none"]
    /\ text = [p \in Pres |-> "empty"]
    /\ wrappers = [p \in Pres |-> 0]
    /\ relative = [p \in Pres |-> FALSE]
    /\ roots = [p \in Pres |-> 0]
    /\ rendered = [p \in Pres |-> 0]
    /\ effect = "idle"
    /\ pending = FALSE
    /\ lastOp = "Init"
    /\ mountedNow = {}

NextDOM ==
    \/ Activate
    \/ Deactivate
    \/ Notify
    \/ ContainerAppear
    \/ ContainerRemove
    \/ \E p \in Pres : RenderCommit(p)
    \/ \E p \in Pres, where \in {"in", "out"}, t \in Texts : InsertPre(p, where, t)
    \/ \E p \in Pres : RemovePre(p)
    \/ \E p \in Pres, t \in Texts : SetText(p, t)

NextAPI ==
    \/ \E s \in ReqSlugs, q \in BOOLEAN : Request(s, q)
    \/ \E s \in DiskSlugs, f \in FileTexts : WriteFile(s, f)
    \/ \E s \in DiskSlugs : DeleteFile(s)
    \/ Tick

\* The files written while successive requests are compared: two articles
\* with different bodies, neither with a date.
OrderFiles == { WithFrontMatter(<<TRUE, "Hello">>, Absent, <<Txt("# Heading")>>),
               <<Txt("para"), Delim, Txt("more")>> }

\* The endpoint with the exchanges its clients have received: the disk starts
\* empty.
InitOrder ==
    /\ InitEnhancer
    /\ container = FALSE

NextOrder ==
    \/ \E s \in ReqSlugs, q \in BOOLEAN : Request(s, q)
    \/ Deliver
    \/ \E s \in DiskSlugs, f \in OrderFiles : WriteFile(s, f)
    \/ \E s \in DiskSlugs : DeleteFile(s)
    \/ Tick

SpecAPIOrder == InitOrder /\ [][NextOrder]_vars

\* The client and the endpoint: the article's file is written, replaced and
\* deleted while the page is open.
NextClient ==
    \/ QueryFetch
    \/ FetchSettle
    \/ RetryFire
    \/ \E c \in inflight : ParseDone(c)
    \/ \E f \in OrderFiles : WriteFile(QuerySlug, f)
    \/ DeleteFile(QuerySlug)

SpecClient == InitOrder /\ [][NextClient]_vars

\* Nothing outside the enhancer touches the page from now on.
StopExternal ==
    /\ ~extDone
    /\ extDone' = TRUE
    /\ UNCHANGED <<domVars, apiVars, clientVars, delivered>>

\* The enhancer while the page changes, then left to itself: only the
\* notifications and the scheduled renders go on. The browser delivers every
\* queued notification and React commits every scheduled render.
NextLoop ==
    \/ ~extDone /\ NextDOM
    \/ StopExternal
    \/ extDone /\ Notify
    \/ extDone /\ \E p \in Pres : RenderCommit(p)

SpecLoop ==
    /\ InitEnhancer
    /\ [][NextLoop]_vars
    /\ WF_vars(Notify)
    /\ WF_vars(\E p \in Pres : RenderCommit(p))

SpecDOM == InitEnhancer /\ [][NextDOM]_vars
SpecAPI == InitEndpoint /\ [][NextAPI]_vars

(***************************************************************************)
(* Claims about the DOM enhancer, checked under SpecDOM                    *)
(***************************************************************************)

\* C1: in every reachable state each pre holds at most one enhancement
\* wrapper, and an enhanced pre has exactly one mounted control, however many
\* times the scan has run.
C1_AtMostOneWrapper ==
    \A p \in Pres : /\ wrappers[p] <= 1
                    /\ wrappers[p] >= 1 => roots[p] = 1

\* C1 witness: a notification scan has just run over a document holding an
\* enhanced, non-blank pre and created nothing.
C1_Witness ==
    /\ lastOp = "Notify"
    /\ mountedNow = {}
    /\ \E p \in Pres : InDocument(p) /\ text[p] = "text" /\ wrappers[p] = 1

\* C2: a notification leaves every non-blank pre of the container with exactly
\* one wrapper and one control, also when several insertions are delivered
\* together, and adds nothing to a pre that already had a wrapper.
C2_DynamicInsertion ==
    [][lastOp' = "Notify" =>
        \A p \in Pres :
            /\ (loc[p] = "in" /\ ~BlankText(p)) =>
                   (wrappers'[p] = 1 /\ roots'[p] = 1)
            /\ wrappers[p] >= 1 =>
                   (wrappers'[p] = wrappers[p] /\ roots'[p] = roots[p])]_vars

\* C2 witness: one notification has mounted a control into each of two pres of
\* the container.
C2_Witness ==
    /\ lastOp = "Notify"
    /\ Cardinality(mountedNow) >= 2
    /\ \A p \in mountedNow : loc[p] = "in" /\ wrappers[p] = 1 /\ roots[p] = 1

\* C3: at the end of an activation with the container present, every
\* non-blank pre of the document has exactly one wrapper and one control, and
\* no notification is pending.
C3_InitialScan ==
    lastOp = "Activate" =>
        /\ effect = "observing"
        /\ ~pending
        /\ \A p \in Pres : (InDocument(p) /\ ~BlankText(p)) =>
                               (wrappers[p] = 1 /\ roots[p] = 1)

\* C3 witness: an activation has mounted a control into a pre that was in the
\* container before it.
C3_Witness ==
    /\ lastOp = "Activate"
    /\ \E p \in mountedNow : loc[p] = "in"

\* C4: while the observer is not connected, no step other than a new
\* activation is a scan or changes the wrappers and the controls, whatever
\* was queued when the observer was disconnected.
C4_Teardown ==
    [][(effect # "observing" /\ effect' # "observing") =>
          /\ lastOp' # "Notify"
          /\ wrappers' = wrappers
          /\ roots' = roots
          /\ relative' = relative]_vars

\* C4 witness: after a deactivation the container holds a pre enhanced while
\* the observer was connected and, inserted since, a non-blank pre without a
\* wrapper.
C4_Witness ==
    /\ effect = "idle"
    /\ lastOp = "Env"
    /\ \E p, q \in Pres : /\ loc[p] = "in" /\ wrappers[p] = 1
                          /\ loc[q] = "in" /\ text[q] = "text" /\ wrappers[q] = 0

\* C5: after a deactivation no root created by a scan remains mounted.
C5_ControlsReleased ==
    lastOp = "Deactivate" => \A p \in Pres : roots[p] = 0

\* C6: no step gives a wrapper or a control to a pre whose text content is
\* empty or whitespace, or makes it a positioning context.
C6_BlankSkipped ==
    [][\A p \in Pres :
          BlankText(p) => /\ wrappers'[p] = wrappers[p]
                          /\ roots'[p] = roots[p]
                          /\ relative'[p] = relative[p]]_vars

\* C6 witness: a scan has mounted a control into one pre and left a
\* whitespace-only pre of the document bare.
C6_Witness ==
    /\ lastOp \in {"Activate", "Notify"}
    /\ mountedNow # {}
    /\ \E p \in Pres : /\ InDocument(p) /\ text[p] = "ws"
                       /\ wrappers[p] = 0 /\ roots[p] = 0 /\ ~relative[p]

\* C7: an activation without the container changes nothing in the document,
\* mounts nothing and connects no observer.
C7_MissingContainer ==
    [][(effect = "idle" /\ effect' # "idle" /\ ~container) =>
          /\ effect' = "noop"
          /\ ~pending'
          /\ mountedNow' = {}
          /\ UNCHANGED <<container, loc, text, wrappers, relative, roots,
                         rendered>>]_vars

\* C7 witness: the effect has returned early while the document held a
\* non-blank pre without a wrapper.
C7_Witness ==
    /\ lastOp = "ActivateNoop"
    /\ effect = "noop"
    /\ \E p \in Pres : loc[p] = "out" /\ text[p] = "text" /\ wrappers[p] = 0

(***************************************************************************)
(* Claims about the content endpoint, checked under SpecAPI                *)
(***************************************************************************)
Answered == resp.kind # "none"

\* The file of the requested slug, as the author left it.
Requested == IF req.slug \in DOMAIN files THEN files[req.slug] ELSE NoFile

\* C8: a request for a slug without an article file is answered 404 with the
\* plain text "Article not found", never with a JSON envelope.
C8_NotFound ==
    (Answered /\ Requested = NoFile) =>
        /\ resp.kind = "text"
        /\ resp.status = 404
        /\ resp.body = "Article not found"
        /\ resp.contentType # "application/json"

\* C8 witness: a request for a slug whose file is not on disk has been answered.
C8_Witness ==
    /\ Answered
    /\ req.slug = SlugNested
    /\ Requested = NoFile
    /\ resp.status = 404

\* The envelope {content: b, data: {title: t, date: d, slug: the request's}}.
IsEnvelope(b, t, d) ==
    /\ resp.kind = "json"
    /\ resp.status = 200
    /\ resp.content = b
    /\ resp.title = t
    /\ resp.date = d
    /\ resp.slug = req.slug

\* C9 as stated: a file whose front-matter holds title T and date D is answered
\* with exactly {content: body, data: {title: T, date: D, slug}}.
C9_ExactEnvelope ==
    Answered =>
        \A ti \in TitleScalars, da \in DateScalars, b \in Bodies :
            Requested = WithFrontMatter(ti, da, b) => IsEnvelope(b, ti[2], da[2])

\* A scalar that YAML reads as a non-empty string.
NonEmptyString(sc) == sc[2] # "" /\ (sc[1] \/ ~IsTimestamp(sc[2]))

\* C9 amended: the same for a title and a date that are non-empty strings.
C9_ExactEnvelopeOfStrings ==
    Answered =>
        \A ti \in TitleScalars, da \in DateScalars, b \in Bodies :
            (/\ Requested = WithFrontMatter(ti, da, b)
             /\ NonEmptyString(ti)
             /\ NonEmptyString(da)) => IsEnvelope(b, ti[2], da[2])

\* C9 witness: the nested slug's file, with a string title and a quoted date,
\* has been answered with its envelope.
C9_Witness ==
    /\ Answered
    /\ req.slug = SlugNested
    /\ \E b \in Bodies :
          /\ Len(b) > 1
          /\ Requested = WithFrontMatter(<<FALSE, "Hello">>, <<TRUE, "2025-06-26">>, b)
          /\ IsEnvelope(b, "Hello", "2025-06-26")

\* The title and date scalars of the requested file with a front-matter block.
HasScalars(ti, da) == \E b \in Bodies : Requested = WithFrontMatter(ti, da, b)

\* A missing title gives "Untitled", a missing date the time of the call.
DefaultsForMissing ==
    /\ Requested \in Bodies =>
          (resp.title = "Untitled" /\ resp.date = ToISOString(req.at))
    /\ \A ti \in TitleScalars \cup {Absent}, da \in DateScalars \cup {Absent} :
          HasScalars(ti, da) =>
              /\ ti = Absent => resp.title = "Untitled"
              /\ da = Absent => resp.date = ToISOString(req.at)

\* C10 as stated: defaults for the missing fields, and a field that is present
\* is never replaced by its default.
C10_Defaults ==
    (Answered /\ Requested # NoFile) =>
        /\ resp.kind = "json"
        /\ DefaultsForMissing
        /\ \A ti \in TitleScalars \cup {Absent}, da \in DateScalars \cup {Absent} :
              HasScalars(ti, da) =>
                  /\ ti # Absent => resp.title # "Untitled"
                  /\ da # Absent => resp.date # ToISOString(req.at)

\* C10 amended: defaults for the missing fields; a field present with a
\* non-empty value keeps its value, a field present with an empty value gets
\* the default like a missing one.
C10_DefaultsForMissingOrEmpty ==
    (Answered /\ Requested # NoFile) =>
        /\ resp.kind = "json"
        /\ DefaultsForMissing
        /\ \A ti \in TitleScalars \cup {Absent}, da \in DateScalars \cup {Absent} :
              HasScalars(ti, da) =>
                  /\ (ti # Absent /\ ti[2] # "") => resp.title = ti[2]
                  /\ (da # Absent /\ da[2] # "") =>
                         resp.date # ToISOString(req.at)
                  /\ (ti # Absent /\ ti[2] = "") => resp.title = "Untitled"
                  /\ (da # Absent /\ da[2] = "") =>
                         resp.date = ToISOString(req.at)

\* C10 witness: a file with neither title nor date has been answered, after
\* the clock has moved, with "Untitled" and the time of the call.
C10_Witness ==
    /\ Answered
    /\ req.at > 0
    /\ HasScalars(Absent, Absent)
    /\ resp.title = "Untitled"
    /\ resp.date = ToISOString(req.at)

(***************************************************************************)
(* The reach of the scan, checked under SpecDOM                            *)
(***************************************************************************)

\* C13: every scan also enhances the non-blank, unmarked pres of the document
\* that are outside the observed container, while a pre entering the document
\* outside the container is no scan and queues no notification.
C13_DocumentWideScan ==
    [][/\ lastOp' \in {"Activate", "Notify"} =>
            \A p \in Pres :
                (loc[p] = "out" /\ ~BlankText(p) /\ wrappers[p] = 0) =>
                    (wrappers'[p] = 1 /\ roots'[p] = 1 /\ p \in mountedNow')
       /\ \A p \in Pres :
            (loc[p] # "out" /\ loc'[p] = "out") =>
                (pending' = pending /\ lastOp' \notin {"Activate", "Notify"})]_vars

\* C13 witness: a notification, which only a mutation inside the container
\* queues, has mounted a control into a pre outside the container.
C13_Witness ==
    /\ lastOp = "Notify"
    /\ \E p \in mountedNow : loc[p] = "out" /\ wrappers[p] = 1

(***************************************************************************)
(* Requests after one another, checked under SpecAPIOrder                  *)
(***************************************************************************)

\* The body an author gave a file.
BodyOfFile(f) ==
    IF f \in Bodies THEN f
    ELSE CHOOSE b \in Bodies :
             \E ti \in TitleScalars \cup {Absent}, da \in DateScalars \cup {Absent} :
                 f = WithFrontMatter(ti, da, b)

\* The file has no date of its own.
Undated(f) ==
    f \in Bodies \/ \E ti \in TitleScalars \cup {Absent}, b \in Bodies :
                        f = WithFrontMatter(ti, Absent, b)

\* The response is that of the file on disk and of the clock now.
FreshAnswer ==
    IF Requested = NoFile
    THEN resp.kind = "text" /\ resp.status = 404
    ELSE /\ resp.kind = "json"
         /\ resp.slug = req.slug
         /\ resp.content = BodyOfFile(Requested)
         /\ Undated(Requested) => resp.date = ToISOString(now)

\* C11: a step that answers a request leaves the files as they are, and its
\* response is that of the file's state at that moment, whatever was answered
\* and delivered before.
C11_StatelessReadOnly ==
    [][(resp'.kind # "none" /\ <<req, resp>>' # <<req, resp>>) =>
          /\ files' = files
          /\ now' = now
          /\ delivered' = delivered
          /\ FreshAnswer']_vars

\* C11 witness: a URL answered and delivered before has been answered again,
\* differently, the file having changed in between.
C11_Witness ==
    /\ resp.kind = "json"
    /\ delivered.resp.kind = "json"
    /\ delivered.req.url = req.url
    /\ delivered.resp.content # resp.content
    /\ delivered.req.at = req.at

(***************************************************************************)
(* Claims about the client, checked under SpecClient                       *)
(***************************************************************************)

\* C12 as stated: nothing is retried; a failed request is never followed by
\* another on the client's own account, and a fetch that ends in error has
\* sent a single request.
C12_NothingRetried ==
    /\ qStatus # "waiting"
    /\ qStatus = "error" => requests = 1

\* C12 amended: a failed request is retried at most DefaultRetry times; a
\* fetch ends in error only after DefaultRetry + 1 failed requests, and never
\* sends more.
C12_RetriedThreeTimes ==
    /\ requests <= DefaultRetry + 1
    /\ failureCount <= DefaultRetry
    /\ qStatus = "waiting" => requests = failureCount
    /\ qStatus = "error" =>
          (requests = DefaultRetry + 1 /\ failureCount = DefaultRetry)

\* C12 witness: a fetch has ended in error after its last retry.
C12_Witness ==
    /\ qStatus = "error"
    /\ requests = DefaultRetry + 1
    /\ resp.kind = "text"
    /\ resp.status = 404

Quiescent ==
    /\ ~pending
    /\ \A p \in Pres : /\ rendered[p] = roots[p]
                       /\ Observed(p) => ~ShouldEnhance(p)

\* C14: once the external changes have ended, the scans that the scan's own
\* wrappers and the rendering controls trigger come to an end: the page
\* reaches a quiescent state and stays in it.
C14_LoopTerminates == extDone ~> []Quiescent

\* C14 witness: after the external changes have ended, a notification caused
\* by a control rendering into its wrapper has run a scan that created
\* nothing, and nothing is left to do.
C14_Witness ==
    /\ extDone
    /\ Quiescent
    /\ lastOp = "Notify"
    /\ mountedNow = {}
    /\ \E p \in Pres : loc[p] = "in" /\ wrappers[p] = 1 /\ rendered[p] = 1

====
